---- MODULE Spec2Model ----
(***************************************************************************)
(* A model of key_mouse_tracker: the packaged trackers                     *)
(* (src/src/key_mouse_tracker/Trackers.py), their scheduler                *)
(* (src/src/key_mouse_tracker/run_trackers.py) and the key classifier      *)
(* (src/KEY_DICT.py).                                                      *)
(*                                                                         *)
(* One tracker instance is modelled; Init chooses whether it is the key    *)
(* tracker or the mouse tracker.  Its threads are the listener's callback  *)
(* threads, the scheduler thread (run_renew_session) and the threads that  *)
(* call stop().                                                            *)
(***************************************************************************)
EXTENDS Integers, Sequences, FiniteSets, TLC

VARIABLES
    dev,                     \* self.dev: "key" or "mouse"
    clock,                   \* the latest value time.time() has returned, in ticks
    locked,                  \* self._lock is held
    stopped,                 \* self.stopped: "None", "False" or "True"
    listener,                \* the pynput listener: "new", "running", "stopped"
    log_file,                \* self._log_file: index into handles, 0 for None
    handles,                 \* every file object open() has returned for a log file
    logs,                    \* the log files on disk: path -> sequence of lines
    meta,                    \* the meta files on disk: date -> sequence of rows
    start_time,              \* self._start_time
    end_time,                \* self._end_time
    first_pressed_time,      \* self._first_pressed_time: key -> time
    last_pressed_key,        \* self._last_pressed_key
    is_last_action_release,  \* self._is_last_action_release
    pc,                      \* where every thread is
    ev,                      \* the event every listener thread is handling
    counter_seconds,         \* run_renew_session's counter
    wake,                    \* the clock value at which time.sleep(1) returns
    uploads,                 \* the date directories upload() has copied, in order
    history,                 \* the callbacks that have returned, in order: the event,
                             \* the time it read, whether its key had a press record
                             \* (had), the record a press left (rec), the rows written
    stops,                   \* the calls of stop() made so far
    ckey,                    \* classifier run: the key under classification
    cpos,                    \* classifier run: next KEY_DICT entry to evaluate
    cmatched,                \* classifier run: the categories that matched
    craised,                 \* classifier run: a predicate raised
    LOCAL_SAVE_DIR,          \* config.LOCAL_SAVE_DIR: None or a path
    REMOTE_SAVE_DIR,         \* config.REMOTE_SAVE_DIR: None or a path
    session_length,          \* run_renew_session's session_length_in_hours *
                             \* SECONDS_IN_HOUR: sleep increments of one session
    increments,              \* the calls of time.sleep(1) that have returned
    dirs                     \* the date directories on disk: date -> "full" when
                             \* the log and meta subdirectories exist, else "bare"

vars == <<dev, clock, locked, stopped, listener, log_file, handles, logs, meta,
          start_time, end_time, first_pressed_time, last_pressed_key,
          is_last_action_release, pc, ev, counter_seconds, wake, uploads,
          history, stops, ckey, cpos, cmatched, craised,
          LOCAL_SAVE_DIR, REMOTE_SAVE_DIR, session_length, increments, dirs>>

trackerVars == <<dev, clock, locked, stopped, listener, log_file, handles, logs,
                 meta, start_time, end_time, first_pressed_time, last_pressed_key,
                 is_last_action_release, pc, ev, counter_seconds, wake, uploads,
                 history, stops, LOCAL_SAVE_DIR, REMOTE_SAVE_DIR, session_length,
                 increments, dirs>>

classifierVars == <<ckey, cpos, cmatched, craised>>
configVars == <<LOCAL_SAVE_DIR, REMOTE_SAVE_DIR, session_length>>
envVars == <<configVars, dirs, increments>>

----------------------------------------------------------------------------
(* Bounds of the model *)

\* the last tick of the clock that time.time() reads
MaxTime == 2
\* callbacks the listener thread runs in one run of the tracker
MaxEvents == 1
\* callbacks run in one run in which several threads call them
MaxCalls == 2
\* callbacks the listener thread runs in one run of the key tracker alone
MaxKeyEvents == 3
\* clock ticks of one run of the scheduler over several sessions
MaxSchedTicks == 8
\* clock ticks of one run of the scheduler in which stop() is called
MaxStopTicks == 4
\* callbacks the listener thread runs in one run with keys that all log rows
MaxRowEvents == 4
\* calls of renew_session made by a caller other than run_renew_session
MaxRenewCalls == 2
\* calls of stop() in one run
MaxStops == 2
\* callbacks the listener thread runs in one run with events that make them fail
MaxOddEvents == 2

(* Program constants, scaled down *)

\* clock ticks in one second, the resolution of the '%Y-%m-%d_%H-%M-%S' stamp
TicksPerSecond == 2
\* seconds of one calendar date, the resolution of _start_date
SecondsPerDay == 2
\* session_length_in_hours * SECONDS_IN_HOUR: sleep increments between rotations
SessionLength == 1

----------------------------------------------------------------------------
(* Key identities and KEY_DICT *)

None == "None"

\* pynput.keyboard.Key members: they have no attribute char
SpecialKeys == {"Key.backspace", "Key.delete", "Key.shift", "Key.space"}

\* pynput.keyboard.KeyCode with a character; the key is named by its character.
\* "e_acute" and "E_ACUTE" stand for a letter outside ASCII and its capital.
CharKeys == {"a", "A", "q", "1", "~", "b", "k", "K", "7", "?", "\\", "e_acute", "E_ACUTE"}

\* pynput.keyboard.KeyCode.from_vk(..): the attribute char exists and is None
NoCharKeys == {"<255>"}

\* every key identity the listener can pass to a callback; None is the unknown key
AllKeys == SpecialKeys \cup CharKeys \cup NoCharKeys \cup {None}

\* "backquote" stands for the backquote character
LEFT_ALPHANUM ==
    {"backquote", "1", "2", "3", "4", "5", "6", "~", "!", "@", "#", "$", "%", "^",
     "q", "w", "e", "r", "t",
     "a", "s", "d", "f", "g",
     "z", "x", "c", "v", "b"}

RIGHT_ALPHANUM ==
    {"7", "8", "9", "0", "&", "*", "(", ")", "-", "=", "_", "+",
     "y", "u", "i", "o", "p", "[", "]", "{", "}", "|", "\\",
     "h", "j", "k", "l", ";", ":", "'", "\"",
     "n", "m", ",", ".", "/", "<", ">", "?"}

\* hasattr(key, 'char')
HasChar(key) == key \in CharKeys \cup NoCharKeys

\* key.char, for a key that has the attribute
Char(key) == IF key \in NoCharKeys THEN None ELSE key

\* str.lower() on the characters of CharKeys
Lower(c) ==
    CASE c = "A" -> "a"
      [] c = "K" -> "k"
      [] c = "E_ACUTE" -> "e_acute"
      [] OTHER -> c

\* the categories, in the order KEY_DICT.items() yields them
KeyTypes == <<"left_alphanum", "right_alphanum", "backspace", "delete", "special">>

\* key.char.lower() raises AttributeError when key.char is None
IsKeyTypeRaises(key_type, key) ==
    /\ key_type \in {"left_alphanum", "right_alphanum"}
    /\ HasChar(key)
    /\ Char(key) = None

\* KEY_DICT[key_type](key), where it does not raise
IsKeyType(key_type, key) ==
    CASE key_type = "left_alphanum" ->
            HasChar(key) /\ Lower(Char(key)) \in LEFT_ALPHANUM
      [] key_type = "right_alphanum" ->
            HasChar(key) /\ Lower(Char(key)) \in RIGHT_ALPHANUM
      [] key_type = "backspace" -> key = "Key.backspace"
      [] key_type = "delete" -> key = "Key.delete"
      [] key_type = "special" ->
            ~HasChar(key) /\ key # "Key.backspace" /\ key # "Key.delete"

----------------------------------------------------------------------------
(* Threads *)

\* the listener thread, which runs the callbacks one after the other
Listener == "l1"
\* the threads that call the callbacks when they are called from several threads
Listeners == {"l1", "l2"}
\* the thread that runs run_renew_session
Scheduler == "sched"
\* the thread that calls stop()
Main == "main"

Threads == Listeners \cup {Scheduler, Main}

\* the places of a thread that lie between self._lock.acquire() and release()
InCritical == {"in", "writing", "renew_close", "renew_meta", "renew_open", "renew_header"}

\* the places of stop() between closing the log file and appending the summary row
InStopClose == {"stop_meta"}

----------------------------------------------------------------------------
(* Time *)

\* datetime.fromtimestamp(t).strftime('%Y-%m-%d_%H-%M-%S'): t to the second
StrfTime(t) == t \div TicksPerSecond

\* _start_datetime.split('_')[0].replace("-", ""): the date of a stamp
DateOf(stamp) == stamp \div SecondsPerDay

NaN == "NaN"

----------------------------------------------------------------------------
(* Files *)

\* the header _init_log_file writes
Header(d) ==
    IF d = "key"
    THEN <<"key_type", "key_name", "timestamp", "duration">>
    ELSE <<"mouse_type", "timestamp", "x", "y", "button", "press", "dx", "dy">>

\* a line of a log file: the cells written so far and who wrote them
Line(who, cells) == [by |-> {who}, cells |-> cells]

HeaderLine(d) == Line("header", Header(d))

\* the part of a row that reaches the file first when a write is not serialized
FirstPart(row) == SubSeq(row, 1, Len(row) \div 2)
SecondPart(row) == SubSeq(row, (Len(row) \div 2) + 1, Len(row))

\* file.write() on a closed file raises ValueError
WriteRaises(h) == handles[h].closed

\* self._log_file.write(row), first part: a new line starts at the end of the file
WriteBegin(lg, t, h, row) ==
    [lg EXCEPT ![handles[h].path] = Append(@, Line(t, FirstPart(row)))]

\* self._log_file.write(row), second part: the rest of the row goes to the end of the file
WriteFinish(lg, t, h, row) ==
    LET lines == lg[handles[h].path]
        n == Len(lines)
    IN  IF n = 0
        THEN [lg EXCEPT ![handles[h].path] = <<Line(t, SecondPart(row))>>]
        ELSE [lg EXCEPT ![handles[h].path][n] =
                 [by |-> @.by \cup {t}, cells |-> @.cells \o SecondPart(row)]]

\* file.close(): closing a closed file does nothing
CloseHandle(h) ==
    [handles EXCEPT ![h] = [@ EXCEPT !.closed = TRUE, !.closes = @ + 1]]

\* os.path.exists(os.path.join(local_save_dir, dev, date))
DirExists(date) == date \in DOMAIN dirs

\* if not os.path.exists(...): os.mkdir(date dir); os.mkdir(meta); os.mkdir(log)
MakeDirs(date) ==
    IF DirExists(date) THEN dirs ELSE (date :> "full") @@ dirs

\* open(log_file_path, 'w+') raises FileNotFoundError when the log
\* subdirectory of the date directory is missing
OpenRaises(date) == DirExists(date) /\ dirs[date] = "bare"

\* open(log_file_path, 'w+'): a new file object; the file is created or truncated
OpenLog(path) ==
    /\ handles' = Append(handles, [path |-> path, closed |-> FALSE, closes |-> 0])
    /\ log_file' = Len(handles) + 1
    /\ logs' = IF path \in DOMAIN logs
               THEN [logs EXCEPT ![path] = <<>>]
               ELSE logs @@ (path :> <<>>)

\* the git hash column of a summary row: what git rev-parse --short HEAD prints
git_hash == "1a2b3c4"

\* the summary row _end_session writes
SummaryRow == <<StrfTime(start_time), StrfTime(end_time), end_time - start_time, git_hash>>

MetaHeader == <<"start_time", "end_time", "duration", "git_hash">>

\* with open(meta_file_path, 'a'): the header if the file is empty, then the row
AppendSummary ==
    LET date == DateOf(StrfTime(start_time))
    IN  meta' = IF date \in DOMAIN meta
                THEN [meta EXCEPT ![date] = Append(@, SummaryRow)]
                ELSE meta @@ (date :> <<MetaHeader, SummaryRow>>)

----------------------------------------------------------------------------
(* Events *)

NoEvent == [type |-> "none"]

KeyEvent(type, key) == [type |-> type, key |-> key]

\* the keys the listener threads deliver in a run of the tracker
Keys == {"a", "Key.shift", "e_acute"}

\* the arguments pynput passes to the mouse callbacks
Xs == {10}
Ys == {20}
Buttons == {"Button.left"}
Deltas == {-1}

\* a key row stamped with the time of the press
KeyRowAtPress(key_type, key_name, now, span) == <<key_type, key_name, now - span, span>>

\* f'{key_type},{key_name},{now},{key_press_span}'
KeyRow(key_type, key_name, now, span) == <<key_type, key_name, now, span>>

\* a key name column that is the key itself, whatever the key
KeyNameRaw(key) == key

\* the key name column: key.char does not raise for a key with a character, and
\* NaN is written; for a key without the attribute the except branch writes str(key)
KeyName(key) == IF HasChar(key) THEN NaN ELSE key

\* the rows the for loop of _on_release writes for key, up to the first predicate
\* that raises: NaN for a key with a character, str(key) otherwise
RECURSIVE ReleaseRowsFrom(_, _, _, _)
ReleaseRowsFrom(i, key, now, span) ==
    IF i > Len(KeyTypes) THEN <<>>
    ELSE IF IsKeyTypeRaises(KeyTypes[i], key) THEN <<>>
    ELSE IF IsKeyType(KeyTypes[i], key)
         THEN <<KeyRow(KeyTypes[i], KeyName(key), now, span)>>
              \o ReleaseRowsFrom(i + 1, key, now, span)
         ELSE ReleaseRowsFrom(i + 1, key, now, span)

\* rows stamped with the time of the press
ReleaseRowsAtPress(key, now, span) == ReleaseRowsFrom(1, key, now - span, span)

ReleaseRows(key, now, span) == ReleaseRowsFrom(1, key, now, span)

MoveRow(now, x, y) == <<"move", now, x, y, NaN, NaN, NaN, NaN>>
\* a click row with the button and the press flag in the scroll columns
ClickRowShifted(now, x, y, button, pressed) ==
    <<"click", now, x, y, NaN, NaN, button, pressed>>

ClickRow(now, x, y, button, pressed) == <<"click", now, x, y, button, pressed, NaN, NaN>>
ScrollRow(now, x, y, dx, dy) == <<"scroll", now, x, y, NaN, NaN, dx, dy>>

\* handler calls made so far
Delivered == Len(history) + Cardinality({t \in Listeners : pc[t] # "idle"})

----------------------------------------------------------------------------
(* The state after the tracker has been constructed *)

Init ==
    /\ dev \in {"key", "mouse"}
    /\ clock = 0
    /\ locked = FALSE
    /\ stopped = None
    /\ listener = "new"
    /\ log_file = 0
    /\ handles = <<>>
    /\ logs = <<>>
    /\ meta = <<>>
    /\ start_time = -1
    /\ end_time = -1
    /\ first_pressed_time = <<>>
    /\ last_pressed_key = None
    /\ is_last_action_release = TRUE
    /\ pc = [t \in Threads |-> IF t = Scheduler THEN "check" ELSE "idle"]
    /\ ev = [t \in Listeners |-> NoEvent]
    /\ counter_seconds = SessionLength
    /\ wake = 0
    /\ uploads = <<>>
    /\ history = <<>>
    /\ stops = 0
    /\ ckey = None
    /\ cpos = 0
    /\ cmatched = {}
    /\ craised = FALSE
    /\ LOCAL_SAVE_DIR = "local"
    /\ REMOTE_SAVE_DIR = "remote"
    /\ session_length = SessionLength
    /\ increments = 0
    /\ dirs = <<>>

----------------------------------------------------------------------------
(* The clock *)

\* time.time() returns now: a value not less than any it has returned before
TimeIs(now) ==
    /\ now \in clock..MaxTime
    /\ clock' = now

----------------------------------------------------------------------------
(* TrackerBase.start: the first session is opened, then the listener starts *)

Start ==
    /\ listener = "new"
    /\ stopped = None
    /\ stopped' = "False"
    /\ \E now \in clock..MaxTime : TimeIs(now)
    /\ start_time' = clock'
    /\ ~OpenRaises(DateOf(StrfTime(clock')))
    /\ dirs' = MakeDirs(DateOf(StrfTime(clock')))
    /\ handles' = <<[path |-> StrfTime(clock'), closed |-> FALSE, closes |-> 0]>>
    /\ log_file' = 1
    /\ logs' = (StrfTime(clock') :> <<HeaderLine(dev)>>)
    /\ listener' = "running"
    /\ UNCHANGED <<dev, locked, meta, end_time, first_pressed_time,
                   last_pressed_key, is_last_action_release, pc, ev, counter_seconds,
                   wake, uploads, history, stops, classifierVars, configVars, increments>>

----------------------------------------------------------------------------
(* The listener's callbacks *)

keyVars == <<first_pressed_time, last_pressed_key, is_last_action_release>>
sessionVars == <<stopped, listener, log_file, handles, meta, start_time, end_time,
                 counter_seconds, wake, uploads, stops>>

\* the events the listener of this tracker can deliver; a mouse callback reads
\* time.time() before it asks for the lock
Events(now) ==
    IF dev = "key"
    THEN {KeyEvent(type, key) : type \in {"press", "release"}, key \in Keys}
    ELSE {[type |-> "move", now |-> now, x |-> x, y |-> y] : x \in Xs, y \in Ys}
         \cup {[type |-> "click", now |-> now, x |-> x, y |-> y,
                button |-> b, pressed |-> TRUE] :
                 x \in Xs, y \in Ys, b \in Buttons}
         \cup {[type |-> "scroll", now |-> now, x |-> x, y |-> y,
                dx |-> 0, dy |-> d] : x \in Xs, y \in Ys, d \in Deltas}

\* the listener calls a callback, which reaches self._lock.acquire()
Deliver(t) ==
    /\ pc[t] = "idle"
    /\ listener = "running"
    /\ \E now \in clock..MaxTime :
          /\ IF dev = "key" THEN clock' = clock ELSE TimeIs(now)
          /\ \E e \in Events(clock') : ev' = [ev EXCEPT ![t] = e]
    /\ pc' = [pc EXCEPT ![t] = "wait"]
    /\ UNCHANGED <<dev, locked, logs, keyVars, sessionVars, history,
                   classifierVars, envVars>>

\* a callback that goes on without waiting for the lock
LockAcquireNoWait(t) ==
    /\ pc[t] = "wait"
    /\ locked' = TRUE
    /\ pc' = [pc EXCEPT ![t] = "in"]
    /\ UNCHANGED <<dev, clock, logs, keyVars, sessionVars, ev, history, classifierVars, envVars>>

\* self._lock.acquire() in a callback
LockAcquire(t) ==
    /\ pc[t] = "wait"
    /\ ~locked
    /\ locked' = TRUE
    /\ pc' = [pc EXCEPT ![t] = "in"]
    /\ UNCHANGED <<dev, clock, logs, keyVars, sessionVars, ev, history, classifierVars, envVars>>

\* finally: self._lock.release(), and the callback returns to the listener
Return(t, entry) ==
    /\ locked' = FALSE
    /\ pc' = [pc EXCEPT ![t] = "idle"]
    /\ ev' = [ev EXCEPT ![t] = NoEvent]
    /\ history' = Append(history, entry)

\* the history entry of a callback that returns: the event and the rows it wrote
Entry(e) == [k \in DOMAIN e \ {"h", "todo"} |-> e[k]]

\* an error that leaves the callback: finally releases the lock and the error
\* reaches the listener thread
Uncaught(t, entry) ==
    /\ locked' = FALSE
    /\ pc' = [pc EXCEPT ![t] = "raised"]
    /\ UNCHANGED <<ev, history>>

\* a callback that returns after an error without releasing the lock
CaughtHolding(t, entry) ==
    /\ locked' = locked
    /\ pc' = [pc EXCEPT ![t] = "idle"]
    /\ ev' = [ev EXCEPT ![t] = NoEvent]
    /\ history' = Append(history, entry)

\* except Exception: logging.exception(..); then finally, and the callback returns
Caught(t, entry) == Return(t, entry)

\* evaluating the predicates of KEY_DICT for key raises
ClassifyRaises(key) == \E i \in 1..Len(KeyTypes) : IsKeyTypeRaises(KeyTypes[i], key)

\* the for loop over KEY_DICT.items() of the callback of event e raises
LoopRaises(e) == e.type \in {"press", "release"} /\ ClassifyRaises(e.key)

\* the first row of todo starts to be written, or write() raises and the callback ends
StartWrite(lg, t, e, todo) ==
    IF todo = <<>>
    THEN /\ IF LoopRaises(e) THEN Caught(t, Entry(e)) ELSE Return(t, Entry(e))
         /\ logs' = lg
    ELSE IF WriteRaises(log_file)
    THEN /\ Caught(t, Entry(e))
         /\ logs' = lg
    ELSE /\ logs' = WriteBegin(lg, t, log_file, Head(todo))
         /\ pc' = [pc EXCEPT ![t] = "writing"]
         /\ ev' = [ev EXCEPT ![t] = [e EXCEPT !.todo = todo, !.h = log_file]]
         /\ UNCHANGED <<locked, history>>

\* a press that records its time whatever came before
RecordsPressAlways(key) == TRUE

\* a press that records its time only when the last action was a release
RecordsPressAfterRelease(key) == is_last_action_release

\* if self._is_last_action_release or self._last_pressed_key != key
RecordsPress(key) == is_last_action_release \/ last_pressed_key # key

\* KeyTrackerPrivate._on_press
on_press(t) ==
    /\ pc[t] = "in"
    /\ ev[t].type = "press"
    /\ \E now \in clock..MaxTime : TimeIs(now)
    /\ LET key == ev[t].key
           now == clock'
       IN  /\ first_pressed_time' =
                  IF RecordsPress(key)
                  THEN [k \in DOMAIN first_pressed_time \cup {key} |->
                           IF k = key THEN now ELSE first_pressed_time[k]]
                  ELSE first_pressed_time
           /\ last_pressed_key' = key
           /\ is_last_action_release' = FALSE
           /\ LET e == [type |-> "press", key |-> key, now |-> now,
                        had |-> key \in DOMAIN first_pressed_time,
                        rec |-> IF key \in DOMAIN first_pressed_time'
                                THEN first_pressed_time'[key] ELSE -1,
                        rows |-> <<>>]
              IN  IF LoopRaises(e) THEN Caught(t, e) ELSE Return(t, e)
    /\ UNCHANGED <<dev, logs, sessionVars, classifierVars, envVars>>

\* a lookup that takes now for the press time of a key without a press record
LookupOrNow(key, now) ==
    [found |-> TRUE,
     time |-> IF key \in DOMAIN first_pressed_time THEN first_pressed_time[key] ELSE now]

\* a lookup that takes 0 for the press time of a key without a press record
LookupOrZero(key, now) ==
    [found |-> TRUE,
     time |-> IF key \in DOMAIN first_pressed_time THEN first_pressed_time[key] ELSE 0]

\* self._first_pressed_time[key]: the press time, or KeyError (found is FALSE)
Lookup(key, now) ==
    IF key \in DOMAIN first_pressed_time
    THEN [found |-> TRUE, time |-> first_pressed_time[key]]
    ELSE [found |-> FALSE, time |-> now]

\* a release that leaves the press record of its key in place
KeepRecord(key) == first_pressed_time

\* self._first_pressed_time.pop(key)
PopRecord(key) ==
    [k \in DOMAIN first_pressed_time \ {key} |-> first_pressed_time[k]]

\* KeyTrackerPrivate._on_release, up to the start of its first write
on_release(t) ==
    /\ pc[t] = "in"
    /\ ev[t].type = "release"
    /\ \E now \in clock..MaxTime : TimeIs(now)
    /\ LET key == ev[t].key
           now == clock'
           e == [type |-> "release", key |-> key, now |-> now,
                 had |-> key \in DOMAIN first_pressed_time, rows |-> <<>>,
                 todo |-> <<>>, h |-> 0]
       IN  IF ~Lookup(key, now).found
           THEN \* KeyError, caught by except Exception
                /\ Caught(t, Entry(e))
                /\ UNCHANGED <<logs, keyVars>>
           ELSE /\ is_last_action_release' = TRUE
                /\ first_pressed_time' = PopRecord(key)
                /\ last_pressed_key' = last_pressed_key
                /\ StartWrite(logs, t, e,
                              ReleaseRows(key, now, now - Lookup(key, now).time))
    /\ UNCHANGED <<dev, sessionVars, classifierVars, envVars>>

\* MouseTracker._on_move, up to the start of its write
on_move(t) ==
    /\ pc[t] = "in"
    /\ ev[t].type = "move"
    /\ LET e == [type |-> "move", now |-> ev[t].now, rows |-> <<>>,
                 todo |-> <<>>, h |-> 0]
       IN  StartWrite(logs, t, e, <<MoveRow(ev[t].now, ev[t].x, ev[t].y)>>)
    /\ UNCHANGED <<dev, clock, keyVars, sessionVars, classifierVars, envVars>>

\* MouseTracker._on_click, up to the start of its write
on_click(t) ==
    /\ pc[t] = "in"
    /\ ev[t].type = "click"
    /\ LET e == [type |-> "click", now |-> ev[t].now, rows |-> <<>>,
                 todo |-> <<>>, h |-> 0]
       IN  StartWrite(logs, t, e, <<ClickRow(ev[t].now, ev[t].x, ev[t].y,
                                       ev[t].button, ev[t].pressed)>>)
    /\ UNCHANGED <<dev, clock, keyVars, sessionVars, classifierVars, envVars>>

\* MouseTracker._on_scroll, up to the start of its write
on_scroll(t) ==
    /\ pc[t] = "in"
    /\ ev[t].type = "scroll"
    /\ LET e == [type |-> "scroll", now |-> ev[t].now, rows |-> <<>>,
                 todo |-> <<>>, h |-> 0]
       IN  StartWrite(logs, t, e, <<ScrollRow(ev[t].now, ev[t].x, ev[t].y,
                                        ev[t].dx, ev[t].dy)>>)
    /\ UNCHANGED <<dev, clock, keyVars, sessionVars, classifierVars, envVars>>

\* the write of a callback ends: its row is whole, unless stop() closed the file
\* under it, and then the row is whole or cut short and write() raises; the
\* callback goes on to its next row or returns
write_end(t) ==
    /\ pc[t] = "writing"
    /\ LET e == ev[t]
           row == Head(e.todo)
           wrote == [e EXCEPT !.rows = Append(@, row)]
       IN  \/ StartWrite(WriteFinish(logs, t, e.h, row), t, wrote, Tail(e.todo))
           \/ /\ handles[e.h].closed
              /\ logs' = logs
              /\ Caught(t, Entry(e))
    /\ UNCHANGED <<dev, clock, keyVars, sessionVars, classifierVars, envVars>>

----------------------------------------------------------------------------
(* run_renew_session and TrackerBase.renew_session, on the scheduler thread *)

schedFrame == <<dev, keyVars, ev, history, stops, classifierVars, envVars>>

\* a loop that never looks at tracker.stopped
LoopForever == TRUE

\* while not tracker.stopped
LoopGoesOn == stopped # "True"

\* while not tracker.stopped: ... time.sleep(1) begins
SchedCheck ==
    /\ pc[Scheduler] = "check"
    /\ stopped # None
    /\ IF ~LoopGoesOn
       THEN /\ pc' = [pc EXCEPT ![Scheduler] = "done"]
            /\ wake' = wake
       ELSE /\ pc' = [pc EXCEPT ![Scheduler] = "sleeping"]
            /\ wake' = clock + TicksPerSecond
    /\ UNCHANGED <<clock, locked, stopped, listener, log_file, handles, logs, meta,
                   start_time, end_time, counter_seconds, uploads, schedFrame>>

\* a rotation that is due one increment before the counter runs out
RenewDueEarly(counter) == counter <= 1

\* if counter_seconds <= 0
RenewDue(counter) == counter <= 0

\* time.sleep(1) returns, a second or more after it began;
\* counter_seconds -= 1; if counter_seconds <= 0: renew_session()
SchedWake ==
    /\ pc[Scheduler] = "sleeping"
    /\ wake <= MaxTime
    /\ clock' = IF clock >= wake THEN clock ELSE wake
    /\ increments' = increments + 1
    /\ counter_seconds' = counter_seconds - 1
    /\ pc' = [pc EXCEPT ![Scheduler] =
                 IF RenewDue(counter_seconds - 1) THEN "renew_wait" ELSE "check"]
    /\ UNCHANGED <<locked, stopped, listener, log_file, handles, logs, meta,
                   start_time, end_time, wake, uploads, dev, keyVars, ev, history,
                   stops, classifierVars, configVars, dirs>>

\* a renew_session that goes on without waiting for the lock
RenewAcquireNoWait ==
    /\ pc[Scheduler] = "renew_wait"
    /\ locked' = TRUE
    /\ pc' = [pc EXCEPT ![Scheduler] = "renew_close"]
    /\ UNCHANGED <<clock, stopped, listener, log_file, handles, logs, meta,
                   start_time, end_time, counter_seconds, wake, uploads, schedFrame>>

\* renew_session: self._lock.acquire()
RenewAcquire ==
    /\ pc[Scheduler] = "renew_wait"
    /\ ~locked
    /\ locked' = TRUE
    /\ pc' = [pc EXCEPT ![Scheduler] = "renew_close"]
    /\ UNCHANGED <<clock, stopped, listener, log_file, handles, logs, meta,
                   start_time, end_time, counter_seconds, wake, uploads, schedFrame>>

\* _end_session: self._log_file.close(); self._end_time = time.time()
EndSessionClose ==
    /\ handles' = CloseHandle(log_file)
    /\ \E now \in clock..MaxTime : TimeIs(now)
    /\ end_time' = clock'

\* _end_session: the summary row is appended, made of the start and end times
\* the tracker holds at that moment
EndSessionMeta == AppendSummary

\* _start_session: the start time is taken and the log file is opened
StartSessionOpen ==
    /\ \E now \in clock..MaxTime : TimeIs(now)
    /\ start_time' = clock'
    /\ ~OpenRaises(DateOf(StrfTime(clock')))
    /\ dirs' = MakeDirs(DateOf(StrfTime(clock')))
    /\ OpenLog(StrfTime(clock'))

RenewClose ==
    /\ pc[Scheduler] = "renew_close"
    /\ EndSessionClose
    /\ pc' = [pc EXCEPT ![Scheduler] = "renew_meta"]
    /\ UNCHANGED <<locked, stopped, listener, log_file, logs, meta,
                   start_time, counter_seconds, wake, uploads, schedFrame>>

RenewMeta ==
    /\ pc[Scheduler] = "renew_meta"
    /\ EndSessionMeta
    /\ pc' = [pc EXCEPT ![Scheduler] = "renew_open"]
    /\ UNCHANGED <<clock, locked, stopped, listener, log_file, handles, logs,
                   start_time, end_time, counter_seconds, wake, uploads, schedFrame>>

RenewOpen ==
    /\ pc[Scheduler] = "renew_open"
    /\ StartSessionOpen
    /\ pc' = [pc EXCEPT ![Scheduler] = "renew_header"]
    /\ UNCHANGED <<locked, stopped, listener, meta, end_time, counter_seconds,
                   wake, uploads, dev, keyVars, ev, history, stops,
                   classifierVars, configVars, increments>>

\* _start_session: the start time is taken, then os.mkdir or open raises OSError;
\* finally: self._lock.release(); the error leaves renew_session and ends the
\* scheduler thread, and self._log_file is still the closed file
RenewOpenFails ==
    /\ pc[Scheduler] = "renew_open"
    /\ \E now \in clock..MaxTime : TimeIs(now)
    /\ start_time' = clock'
    /\ locked' = FALSE
    /\ pc' = [pc EXCEPT ![Scheduler] = "crashed"]
    /\ UNCHANGED <<stopped, listener, log_file, handles, logs, meta, end_time,
                   counter_seconds, wake, uploads, schedFrame>>

\* _start_session: self._init_log_file(); then finally: self._lock.release().
\* The write raises when stop() has closed the new file; the error leaves
\* renew_session and ends the scheduler thread.
RenewHeader ==
    /\ pc[Scheduler] = "renew_header"
    /\ IF WriteRaises(log_file)
       THEN /\ logs' = logs
            /\ pc' = [pc EXCEPT ![Scheduler] = "crashed"]
       ELSE /\ logs' = [logs EXCEPT ![handles[log_file].path] = Append(@, HeaderLine(dev))]
            /\ pc' = [pc EXCEPT ![Scheduler] = "upload"]
    /\ locked' = FALSE
    /\ UNCHANGED <<clock, stopped, listener, log_file, handles, meta, start_time,
                   end_time, counter_seconds, wake, uploads, schedFrame>>

\* upload(): the directory of self._start_date is copied
Upload == uploads' = Append(uploads, DateOf(StrfTime(start_time)))

\* renew_session: self.upload(); back in the loop the counter is reset
RenewUpload ==
    /\ pc[Scheduler] = "upload"
    /\ Upload
    /\ counter_seconds' = session_length
    /\ pc' = [pc EXCEPT ![Scheduler] = "check"]
    /\ UNCHANGED <<clock, locked, stopped, listener, log_file, handles, logs, meta,
                   start_time, end_time, wake, schedFrame>>

----------------------------------------------------------------------------
(* TrackerBase.stop, called on the main thread *)

stopFrame == <<dev, keyVars, ev, history, classifierVars, envVars>>

\* stop: _end_session: self._log_file.close(), and the end time is taken
StopClose ==
    /\ pc[Main] \in {"idle", "done"}
    /\ stopped # None
    /\ stops < MaxStops
    /\ stops' = stops + 1
    /\ EndSessionClose
    /\ pc' = [pc EXCEPT ![Main] = "stop_meta"]
    /\ UNCHANGED <<locked, stopped, listener, log_file, logs, meta,
                   start_time, counter_seconds, wake, uploads, stopFrame>>

\* stop: _end_session: the summary row; then self._meta_file.close(), which the
\* with statement has done already
StopMeta ==
    /\ pc[Main] = "stop_meta"
    /\ EndSessionMeta
    /\ pc' = [pc EXCEPT ![Main] = "stop_listener"]
    /\ UNCHANGED <<clock, locked, stopped, listener, log_file, handles, logs,
                   start_time, end_time, counter_seconds, wake, uploads, stops, stopFrame>>

\* stop: self.listener.stop()
StopListener ==
    /\ pc[Main] = "stop_listener"
    /\ listener' = "stopped"
    /\ pc' = [pc EXCEPT ![Main] = "stop_flag"]
    /\ UNCHANGED <<clock, locked, stopped, log_file, handles, logs, meta, start_time,
                   end_time, counter_seconds, wake, uploads, stops, stopFrame>>

\* stop: self.stopped = True
StopFlag ==
    /\ pc[Main] = "stop_flag"
    /\ stopped' = "True"
    /\ pc' = [pc EXCEPT ![Main] = "stop_upload"]
    /\ UNCHANGED <<clock, locked, listener, log_file, handles, logs, meta, start_time,
                   end_time, counter_seconds, wake, uploads, stops, stopFrame>>

\* stop: self.upload()
StopUpload ==
    /\ pc[Main] = "stop_upload"
    /\ Upload
    /\ pc' = [pc EXCEPT ![Main] = "done"]
    /\ UNCHANGED <<clock, locked, stopped, listener, log_file, handles, logs, meta,
                   start_time, end_time, counter_seconds, wake, stops, stopFrame>>

----------------------------------------------------------------------------
(* The tracker *)

\* what the listener threads and the main thread do
Handlers(T) ==
    \/ \E t \in T : LockAcquire(t)
    \/ \E t \in T : on_press(t)
    \/ \E t \in T : on_release(t)
    \/ \E t \in T : on_move(t)
    \/ \E t \in T : on_click(t)
    \/ \E t \in T : on_scroll(t)
    \/ \E t \in T : write_end(t)

Rotation ==
    \/ SchedCheck
    \/ SchedWake
    \/ RenewAcquire
    \/ RenewClose
    \/ RenewMeta
    \/ RenewOpen
    \/ RenewHeader
    \/ RenewUpload

Stop ==
    \/ StopClose
    \/ StopMeta
    \/ StopListener
    \/ StopFlag
    \/ StopUpload

\* the tracker as run_trackers runs it: one listener thread, the scheduler
\* thread and the main thread
Next ==
    \/ Start
    \/ Delivered < MaxEvents /\ Deliver(Listener)
    \/ Handlers({Listener})
    \/ Rotation
    \/ Stop

Spec == Init /\ [][Next]_vars

\* the callbacks called from several threads while the scheduler rotates
NextThreads ==
    \/ Start
    \/ \E t \in Listeners : Delivered < MaxCalls /\ Deliver(t)
    \/ Handlers(Listeners)
    \/ Rotation

SpecThreads == Init /\ [][NextThreads]_vars

\* the key tracker while it is tracking: its listener thread and the scheduler
NextKey ==
    \/ Start
    \/ Delivered < MaxKeyEvents /\ Deliver(Listener)
    \/ LockAcquire(Listener)
    \/ on_press(Listener)
    \/ on_release(Listener)
    \/ write_end(Listener)
    \/ Rotation

InitKey == Init /\ dev = "key"

SpecKey == InitKey /\ [][NextKey]_vars

----------------------------------------------------------------------------
(* The classifier alone: the for loop over KEY_DICT.items(), for every key *)

InitClassify ==
    /\ dev = "key"
    /\ clock = 0
    /\ locked = FALSE
    /\ stopped = None
    /\ listener = "new"
    /\ log_file = 0
    /\ handles = <<>>
    /\ logs = <<>>
    /\ meta = <<>>
    /\ start_time = -1
    /\ end_time = -1
    /\ first_pressed_time = <<>>
    /\ last_pressed_key = None
    /\ is_last_action_release = TRUE
    /\ pc = [t \in Threads |-> IF t = Scheduler THEN "check" ELSE "idle"]
    /\ ev = [t \in Listeners |-> NoEvent]
    /\ counter_seconds = SessionLength
    /\ wake = 0
    /\ uploads = <<>>
    /\ history = <<>>
    /\ stops = 0
    /\ ckey \in AllKeys
    /\ cpos = 1
    /\ cmatched = {}
    /\ craised = FALSE
    /\ LOCAL_SAVE_DIR = "local"
    /\ REMOTE_SAVE_DIR = "remote"
    /\ session_length = SessionLength
    /\ increments = 0
    /\ dirs = <<>>

\* one turn of the loop: is_key_type(key) is evaluated for the next category
ClassifyStep ==
    /\ cpos <= Len(KeyTypes)
    /\ ~craised
    /\ IF IsKeyTypeRaises(KeyTypes[cpos], ckey)
       THEN /\ craised' = TRUE
            /\ UNCHANGED <<cpos, cmatched>>
       ELSE /\ cpos' = cpos + 1
            /\ cmatched' = IF IsKeyType(KeyTypes[cpos], ckey)
                           THEN cmatched \cup {KeyTypes[cpos]}
                           ELSE cmatched
            /\ craised' = FALSE
    /\ UNCHANGED <<ckey, trackerVars>>

SpecClassify == InitClassify /\ [][ClassifyStep]_vars

----------------------------------------------------------------------------
(* The callbacks with events that make them fail, while stop() runs *)

\* a key that is classified and a key whose char is None
OddKeys == {"a", "<255>"}

\* the events of a listener that also delivers the keys of OddKeys
OddEvents(now) ==
    IF dev = "key"
    THEN {KeyEvent(type, key) : type \in {"press", "release"}, key \in OddKeys}
    ELSE Events(now)

\* the listener calls a callback with one of these events
DeliverOdd(t) ==
    /\ pc[t] = "idle"
    /\ listener = "running"
    /\ \E now \in clock..MaxTime :
          /\ IF dev = "key" THEN clock' = clock ELSE TimeIs(now)
          /\ \E e \in OddEvents(clock') : ev' = [ev EXCEPT ![t] = e]
    /\ pc' = [pc EXCEPT ![t] = "wait"]
    /\ UNCHANGED <<dev, locked, logs, keyVars, sessionVars, history,
                   classifierVars, envVars>>

NextErrors ==
    \/ Start
    \/ Delivered < MaxOddEvents /\ DeliverOdd(Listener)
    \/ Handlers({Listener})
    \/ Stop

SpecErrors == Init /\ [][NextErrors]_vars

----------------------------------------------------------------------------
(* The tracker where opening a log file can fail *)

NextFailure ==
    \/ Start
    \/ Delivered < MaxEvents /\ Deliver(Listener)
    \/ Handlers({Listener})
    \/ Rotation
    \/ RenewOpenFails

SpecFailure == Init /\ [][NextFailure]_vars

----------------------------------------------------------------------------
(* Properties *)

\* the threads that are between self._lock.acquire() and self._lock.release()
Inside == {t \in Threads : pc[t] \in InCritical}

MouseTypes == {"move", "click", "scroll"}

\* C1: the critical sections of the callbacks and of renew_session exclude one
\* another: at most one thread is inside any of them.
C1_MutualExclusion == Cardinality(Inside) <= 1

\* a callback is writing while another callback and renew_session wait for the lock
C1_Witness ==
    /\ pc["l1"] = "writing"
    /\ pc["l2"] = "wait"
    /\ pc[Scheduler] = "renew_wait"

\* C2: the close sequence of stop() (the log file is closed, the summary row is
\* appended) never runs while renew_session or a callback is inside its critical
\* section.
C2_StopSerialized == pc[Main] \in InStopClose => Inside = {}

\* a line that is one whole row written by one callback
WholeRow(line) ==
    /\ Cardinality(line.by) = 1
    /\ line.by \subseteq Listeners
    /\ Len(line.cells) = Len(Header(dev))

\* line i of the file at path is the row a callback is in the middle of writing
BeingWritten(path, i) ==
    \E t \in Listeners :
        /\ pc[t] = "writing"
        /\ handles[ev[t].h].path = path
        /\ i = Len(logs[path])
        /\ logs[path][i] = Line(t, FirstPart(Head(ev[t].todo)))

\* C3: whatever the interleaving of the callbacks, called from several threads,
\* with renew_session, every line of every log file is the header or one whole row
\* of one event (4 columns for a key row, 8 for a mouse row); the only line that is
\* not yet whole is the last one of the file a callback is writing to.
C3_LinesWhole ==
    \A path \in DOMAIN logs : \A i \in 1..Len(logs[path]) :
        \/ logs[path][i] = HeaderLine(dev)
        \/ WholeRow(logs[path][i])
        \/ BeingWritten(path, i)

\* after a rotation the log files hold a whole row of each of the two threads
C3_Witness ==
    /\ Len(handles) >= 2
    /\ \A t \in Listeners :
           \E path \in DOMAIN logs : \E i \in 1..Len(logs[path]) :
               logs[path][i].by = {t} /\ WholeRow(logs[path][i])

\* C4: a mouse event or a matched key release handled while the tracker is
\* tracking appends its row to the log file; it is never dropped.
C4_NoEventDropped ==
    \A i \in 1..Len(history) :
        LET e == history[i]
        IN  (e.type \in MouseTypes \/ (e.type = "release" /\ e.had))
                => Len(e.rows) = 1

\* the release at place j of the history is the first event of key k after the
\* press at place i
NextOfKey(i, j) ==
    /\ i < j
    /\ history[i].type = "press"
    /\ history[j].type = "release"
    /\ history[j].key = history[i].key
    /\ \A m \in (i + 1)..(j - 1) : history[m].key # history[i].key

\* C5: press(k, t0) of a key without a press record, then release(k, t1), with no
\* other press of k in between, logs one row whose duration is t1 - t0, whatever
\* happens to other keys in between.
C5_DurationExact ==
    \A i, j \in 1..Len(history) :
        (NextOfKey(i, j) /\ ~history[i].had)
            => /\ Len(history[j].rows) = 1
               /\ history[j].rows[1][4] = history[j].now - history[i].now

\* a callback of thread t returns in this step
Returns(t) == pc[t] # "idle" /\ pc'[t] = "idle"

\* C6 as claimed: once PressRecord[k] is recorded, a further press of k leaves it
\* as it is, also when other keys are pressed or released in between.
C6_DebounceAlways ==
    [][\A t \in Listeners :
          (Returns(t) /\ ev[t].type = "press" /\ ev[t].key \in DOMAIN first_pressed_time)
              => first_pressed_time'[ev[t].key] = first_pressed_time[ev[t].key]]_vars

\* the event at place i of the history changed the key state: a press, or a
\* release of a key that had a press record
Recorded(i) == history[i].type = "press" \/ (history[i].type = "release" /\ history[i].had)

\* the presses at places i < j are presses of one key with no press of another
\* key and no matched release in between
RepeatedPress(i, j) ==
    /\ i < j
    /\ history[i].type = "press"
    /\ history[j].type = "press"
    /\ history[j].key = history[i].key
    /\ \A m \in (i + 1)..(j - 1) : ~Recorded(m)

\* C6, amended: a further press of k leaves PressRecord[k] as the press before it
\* left it, provided no other key was pressed and no release with a press record
\* was handled between the two presses of k.
C6_Debounce ==
    \A i, j \in 1..Len(history) :
        RepeatedPress(i, j) => history[j].rec = history[i].rec

\* a key is pressed again at a later time, after a release without a press record,
\* and its press record is still the time of the first press
C6_Witness ==
    \E i, j \in 1..Len(history) :
        /\ RepeatedPress(i, j)
        /\ j > i + 1
        /\ history[j].now > history[i].now
        /\ history[j].rec = history[i].now

\* C7: a release of a key without a press record writes no row, returns to the
\* listener and leaves the lock free.
C7_UnmatchedRelease ==
    [][\A t \in Listeners :
          (/\ pc[t] = "in"
           /\ ev[t].type = "release"
           /\ ev[t].key \notin DOMAIN first_pressed_time
           /\ pc'[t] # "in")
              => /\ logs' = logs
                 /\ pc'[t] = "idle"
                 /\ ~locked'
                 /\ Len(history') = Len(history) + 1
                 /\ history'[Len(history')].rows = <<>>]_vars

\* after a release without a press record the next events are handled: a press
\* and a release that writes its row
C7_Witness ==
    /\ Len(history) = 3
    /\ history[1].type = "release"
    /\ ~history[1].had
    /\ history[1].rows = <<>>
    /\ history[3].type = "release"
    /\ Len(history[3].rows) = 1
    /\ ~locked

\* C8: for every key identity exactly one category matches, and no predicate raises.
C8_ClassifyTotal ==
    /\ ~craised
    /\ cpos > Len(KeyTypes) => Cardinality(cmatched) = 1

\* C9: stop() is idempotent: a second call of stop() appends no second summary
\* row to the meta file.
C9_StopIdempotent ==
    [][(stops >= 2 /\ pc[Main] = "stop_meta") => meta' = meta]_vars

\* C10: stop() closes the log file only after the listener has stopped: once the
\* file is closed by stop(), the listener delivers nothing and no callback runs.
C10_ListenerStoppedFirst ==
    stops > 0 => (listener = "stopped" /\ \A t \in Listeners : pc[t] = "idle")

\* C11: once stop() has set stopped, the scheduler does not call renew_session
\* again, also when stop() ran during its sleep, and no new log file is opened.
C11_NoRotationAfterStop ==
    [][stopped = "True"
          => /\ pc[Scheduler] = "sleeping" => pc'[Scheduler] # "renew_wait"
             /\ Len(handles') = Len(handles)]_vars

\* the summary rows of the meta files of the dates, without the headers
RECURSIVE RowsIn(_)
RowsIn(dates) ==
    IF dates = {} THEN 0
    ELSE LET d == CHOOSE x \in dates : TRUE
         IN  (Len(meta[d]) - 1) + RowsIn(dates \ {d})

SummaryRows == RowsIn(DOMAIN meta)

\* the sessions whose log file has been closed
ClosedSessions == {h \in 1..Len(handles) : handles[h].closed}

\* no thread is between closing a log file and appending its summary row
NoEndSessionUnderWay == pc[Scheduler] # "renew_meta" /\ pc[Main] # "stop_meta"

\* C12: every renew_session appends one summary row for the session it closes:
\* after n rotations and at most one stop there is one row per closed session.
C12_OneRowPerSession ==
    (stops <= 1 /\ NoEndSessionUnderWay) => SummaryRows = Cardinality(ClosedSessions)

\* C13: every summary row has an end time after its start time: its duration,
\* end_time - start_time, is positive and its end stamp is not before its start stamp.
C13_EndAfterStart ==
    \A d \in DOMAIN meta : \A i \in 2..Len(meta[d]) :
        /\ meta[d][i][3] > 0
        /\ meta[d][i][2] >= meta[d][i][1]

\* the file at path has just been opened by renew_session, which is about to
\* write its header
BeingOpened(path) ==
    /\ pc[Scheduler] = "renew_header"
    /\ handles[log_file].path = path
    /\ logs[path] = <<>>

\* C14: every log file that start() or renew_session has opened has the header as
\* its first line, written once and before any event row.
C14_HeaderFirst ==
    \A path \in DOMAIN logs :
        \/ BeingOpened(path)
        \/ /\ Len(logs[path]) >= 1
           /\ logs[path][1] = HeaderLine(dev)
           /\ \A i \in 2..Len(logs[path]) : logs[path][i] # HeaderLine(dev)

\* the callback of thread t is at a step that raises: a release without a press
\* record, a predicate of KEY_DICT that raises, a write to a closed log file
Fails(t) ==
    \/ /\ pc[t] = "in"
       /\ \/ ev[t].type = "release" /\ ev[t].key \notin DOMAIN first_pressed_time
          \/ LoopRaises(ev[t])
          \/ ev[t].type \in MouseTypes /\ WriteRaises(log_file)
          \/ /\ ev[t].type = "release"
             /\ ev[t].key \in DOMAIN first_pressed_time
             /\ ReleaseRows(ev[t].key, 0, 0) # <<>>
             /\ WriteRaises(log_file)
    \/ pc[t] = "writing" /\ handles[ev[t].h].closed

\* C15: an error raised while an event is handled stays in the callback: the
\* callback returns to the listener, the lock is free and the listener goes on.
C15_ErrorsContained ==
    [][\A t \in Listeners :
          (Fails(t) /\ pc'[t] # pc[t])
              => /\ pc'[t] = "idle"
                 /\ ~locked'
                 /\ listener' = listener
                 /\ Len(history') = Len(history) + 1]_vars

\* after a press whose classification raised, the press of another key is
\* handled: its press record is made and the lock is free again
C15_Witness ==
    /\ Len(history) = 2
    /\ history[1].type = "press"
    /\ ClassifyRaises(history[1].key)
    /\ history[2].type = "press"
    /\ history[2].key # history[1].key
    /\ history[2].key \in DOMAIN first_pressed_time
    /\ first_pressed_time[history[2].key] = history[2].now
    /\ ~locked

\* the scheduler thread is in the part of renew_session between the close of the
\* old log file and the header of the new one
Rotating == pc[Scheduler] \in {"renew_meta", "renew_open", "renew_header"}

\* C16: a failure to open or write a file inside renew_session does not end the
\* scheduler thread, and the tracker still has an open log file afterwards.
C16_RenewRecovers ==
    /\ pc[Scheduler] # "crashed"
    /\ (stopped = "False" /\ stops = 0 /\ ~Rotating) => ~handles[log_file].closed

\* the log files that are open
OpenSessions == {h \in 1..Len(handles) : ~handles[h].closed}

\* stop() has returned and the scheduler thread has ended
AllStopped == stopped = "True" /\ pc[Main] = "done" /\ pc[Scheduler] \in {"done", "crashed"}

\* C17: at most one log file is open, no log file is closed twice, and none is
\* open once the tracker has stopped.
C17_OneOpenClosedOnce ==
    /\ Cardinality(OpenSessions) <= 1
    /\ \A h \in 1..Len(handles) : handles[h].closes <= 1
    /\ AllStopped => OpenSessions = {}

\* C18: no key row holds the character of a key: the key name is NaN in the rows
\* of the alphanumeric categories and the name of the key in the rows of special keys.
C18_NoRawCharacter ==
    dev = "key" =>
        \A path \in DOMAIN logs : \A i \in 1..Len(logs[path]) :
            LET cells == logs[path][i].cells
            IN  logs[path][i] # HeaderLine(dev) =>
                   /\ cells[2] \notin CharKeys
                   /\ cells[1] \in {"left_alphanum", "right_alphanum"} => cells[2] = NaN
                   /\ cells[1] \in {"backspace", "delete", "special"}
                          => cells[2] \in SpecialKeys \cup {None}

\* the release of the key with the character a has written a row whose key name is NaN
C18_Witness ==
    \E j \in 1..Len(history) :
        /\ history[j].type = "release"
        /\ history[j].key = "a"
        /\ Len(history[j].rows) = 1
        /\ \E path \in DOMAIN logs : \E i \in 1..Len(logs[path]) :
               /\ logs[path][i].cells = history[j].rows[1]
               /\ logs[path][i].cells[1] = "left_alphanum"
               /\ logs[path][i].cells[2] = NaN

\* C19: a key row is written only by a release, never by a press, and its
\* timestamp is the time the release callback read.
C19_RowOnRelease ==
    [][\A t \in Listeners :
          /\ (ev[t].type = "press" /\ pc'[t] # pc[t]) => logs' = logs
          /\ (ev[t].type = "release" /\ pc[t] = "in" /\ pc'[t] = "writing")
                => Head(ev'[t].todo)[3] = clock'
          /\ (ev[t].type = "release" /\ pc[t] = "writing" /\ logs' # logs)
                => LET path == handles[ev[t].h].path
                   IN  logs'[path][Len(logs'[path])].cells = Head(ev[t].todo)]_vars

\* a key was pressed and released later, and the file holds its row with the
\* time of the release
C19_Witness ==
    \E i, j \in 1..Len(history) :
        /\ NextOfKey(i, j)
        /\ history[j].now > history[i].now
        /\ Len(history[j].rows) = 1
        /\ history[j].rows[1][3] = history[j].now
        /\ \E path \in DOMAIN logs : \E n \in 1..Len(logs[path]) :
               logs[path][n].cells = history[j].rows[1]

\* the closed sessions whose start date is d
ClosedOn(d) == {h \in ClosedSessions : DateOf(handles[h].path) = d}

\* the start dates of the sessions opened so far
StartDates == {DateOf(handles[h].path) : h \in 1..Len(handles)}

\* a line of a meta file is the header: its last column is the column name
IsMetaHeader(row) == row[4] = MetaHeader[4]

\* C20: the meta file is appended to, never truncated: its header is its first
\* line and is written once, and after n sessions of its date have been closed it
\* holds the header and n summary rows, in closing order.
C20_MetaAppendOnly ==
    /\ \A d \in DOMAIN meta :
           /\ IsMetaHeader(meta[d][1])
           /\ \A i \in 2..Len(meta[d]) : ~IsMetaHeader(meta[d][i])
           /\ \A i \in 2..(Len(meta[d]) - 1) : meta[d][i][2] <= meta[d][i + 1][2]
    /\ NoEndSessionUnderWay =>
           \A d \in StartDates \cup DOMAIN meta :
               IF d \in DOMAIN meta
               THEN Len(meta[d]) = 1 + Cardinality(ClosedOn(d))
               ELSE ClosedOn(d) = {}

----------------------------------------------------------------------------
(* Construction: KeyTrackerPrivate.__init__ and MouseTracker.__init__ make the
   listener object, then TrackerBase.__init__ reads the configuration *)

\* before the constructor runs: config.py holds any of its values
InitConstruct ==
    /\ dev \in {"key", "mouse"}
    /\ clock = 0
    /\ locked = FALSE
    /\ stopped = None
    /\ listener = "unbuilt"
    /\ log_file = 0
    /\ handles = <<>>
    /\ logs = <<>>
    /\ meta = <<>>
    /\ start_time = -1
    /\ end_time = -1
    /\ first_pressed_time = <<>>
    /\ last_pressed_key = None
    /\ is_last_action_release = TRUE
    /\ pc = [t \in Threads |-> IF t = Scheduler THEN "check" ELSE "idle"]
    /\ ev = [t \in Listeners |-> NoEvent]
    /\ counter_seconds = SessionLength
    /\ wake = 0
    /\ uploads = <<>>
    /\ history = <<>>
    /\ stops = 0
    /\ ckey = None
    /\ cpos = 0
    /\ cmatched = {}
    /\ craised = FALSE
    /\ LOCAL_SAVE_DIR \in {None, "local"}
    /\ REMOTE_SAVE_DIR \in {None, "remote"}
    /\ session_length = SessionLength
    /\ increments = 0
    /\ dirs = <<>>

\* a constructor that does not look at the configuration
ConstructNeverRaises == FALSE

\* if config.LOCAL_SAVE_DIR is None or config.REMOTE_SAVE_DIR is None: raise ValueError
ConstructRaises == LOCAL_SAVE_DIR = None \/ REMOTE_SAVE_DIR = None

\* the constructor: the listener is made but not started; when __init__ raises,
\* no tracker object is bound and nothing can call start() on it
Construct ==
    /\ listener = "unbuilt"
    /\ listener' = IF ConstructRaises THEN "unbound" ELSE "new"
    /\ UNCHANGED <<dev, clock, locked, stopped, log_file, handles, logs, meta,
                   start_time, end_time, keyVars, pc, ev, counter_seconds, wake,
                   uploads, history, stops, classifierVars, envVars>>

\* run_trackers from the construction of the tracker on
NextConstruct ==
    \/ Construct
    \/ Start
    \/ Delivered < MaxEvents /\ Deliver(Listener)
    \/ Handlers({Listener})
    \/ Rotation

SpecConstruct == InitConstruct /\ [][NextConstruct]_vars

\* C21: when config.LOCAL_SAVE_DIR or config.REMOTE_SAVE_DIR is None, the
\* constructor fails and the tracker never starts: start() has not run, no
\* session is open, no log or meta file exists and the listener is not running.
C21_UnsetConfigNeverStarts ==
    (LOCAL_SAVE_DIR = None \/ REMOTE_SAVE_DIR = None) =>
        /\ listener \in {"unbuilt", "unbound"}
        /\ stopped = None
        /\ log_file = 0
        /\ handles = <<>>
        /\ logs = <<>>
        /\ meta = <<>>
        /\ dirs = <<>>
        /\ start_time = -1

\* the constructor has raised for a configuration without a remote directory
C21_Witness ==
    /\ LOCAL_SAVE_DIR # None
    /\ REMOTE_SAVE_DIR = None
    /\ listener = "unbound"

\* the calls of renew_session and stop that have appended their summary row and
\* have not yet called upload
UploadsOwed ==
    {t \in {Scheduler} : pc[t] \in {"renew_open", "renew_header", "upload"}}
    \cup {t \in {Main} : pc[t] \in {"stop_listener", "stop_flag", "stop_upload"}}

\* C22: every session close is followed by exactly one upload, made after the log
\* file was closed and the summary row appended: the uploads made and the
\* uploads still owed by a running renew_session or stop add up to the summary rows.
C22_UploadPerClose == SummaryRows = Len(uploads) + Cardinality(UploadsOwed)

----------------------------------------------------------------------------
(* The tracker where the upload can fail *)

\* renew_session: self.upload(): subprocess.run(['rclone', ...]) raises OSError
\* (rclone cannot be executed); the error leaves renew_session, which has
\* released the lock already, and ends the scheduler thread
RenewUploadFails ==
    /\ pc[Scheduler] = "upload"
    /\ pc' = [pc EXCEPT ![Scheduler] = "crashed"]
    /\ UNCHANGED <<clock, locked, stopped, listener, log_file, handles, logs, meta,
                   start_time, end_time, counter_seconds, wake, uploads, schedFrame>>

NextUpload ==
    \/ Start
    \/ Delivered < MaxEvents /\ Deliver(Listener)
    \/ Handlers({Listener})
    \/ Rotation
    \/ RenewUploadFails

SpecUpload == Init /\ [][NextUpload]_vars

\* C23: an upload that raises after a rotation does not end the scheduler thread:
\* from the call of upload the scheduler goes back to its loop.
C23_UploadFailureContained ==
    [][pc[Scheduler] = "upload" => pc'[Scheduler] \in {"upload", "check"}]_vars

----------------------------------------------------------------------------
(* The tracker started where the date directory may exist already *)

\* the date directory of the first session is absent, complete, or present
\* without its log and meta subdirectories
InitDirs ==
    /\ dev \in {"key", "mouse"}
    /\ clock = 0
    /\ locked = FALSE
    /\ stopped = None
    /\ listener = "new"
    /\ log_file = 0
    /\ handles = <<>>
    /\ logs = <<>>
    /\ meta = <<>>
    /\ start_time = -1
    /\ end_time = -1
    /\ first_pressed_time = <<>>
    /\ last_pressed_key = None
    /\ is_last_action_release = TRUE
    /\ pc = [t \in Threads |-> IF t = Scheduler THEN "check" ELSE "idle"]
    /\ ev = [t \in Listeners |-> NoEvent]
    /\ counter_seconds = SessionLength
    /\ wake = 0
    /\ uploads = <<>>
    /\ history = <<>>
    /\ stops = 0
    /\ ckey = None
    /\ cpos = 0
    /\ cmatched = {}
    /\ craised = FALSE
    /\ LOCAL_SAVE_DIR = "local"
    /\ REMOTE_SAVE_DIR = "remote"
    /\ session_length = SessionLength
    /\ increments = 0
    /\ dirs \in {<<>>} \cup {(0 :> k) : k \in {"full", "bare"}}

\* start() where _start_session finds the date directory without its log
\* subdirectory: os.path.exists is true, no os.mkdir runs, and open(log_file_path,
\* 'w+') raises FileNotFoundError; the error leaves start() before listener.start()
StartOpenFails ==
    /\ listener = "new"
    /\ stopped = None
    /\ stopped' = "False"
    /\ \E now \in clock..MaxTime : TimeIs(now)
    /\ start_time' = clock'
    /\ OpenRaises(DateOf(StrfTime(clock')))
    /\ UNCHANGED <<dev, locked, listener, log_file, handles, logs, meta, end_time,
                   keyVars, pc, ev, counter_seconds, wake, uploads, history, stops,
                   classifierVars, envVars>>

\* start() where someone else creates the date directory (whole, or up to one of
\* its subdirectories) after os.path.exists has returned False: os.mkdir raises
\* FileExistsError; the error leaves start() before listener.start()
StartMkdirFails ==
    /\ listener = "new"
    /\ stopped = None
    /\ stopped' = "False"
    /\ \E now \in clock..MaxTime : TimeIs(now)
    /\ start_time' = clock'
    /\ ~DirExists(DateOf(StrfTime(clock')))
    /\ \E k \in {"full", "bare"} : dirs' = (DateOf(StrfTime(clock')) :> k) @@ dirs
    /\ UNCHANGED <<dev, locked, listener, log_file, handles, logs, meta, end_time,
                   keyVars, pc, ev, counter_seconds, wake, uploads, history, stops,
                   classifierVars, configVars, increments>>

NextDirs ==
    \/ Start
    \/ StartOpenFails
    \/ StartMkdirFails
    \/ Delivered < MaxCalls /\ Deliver(Listener)
    \/ Handlers({Listener})

SpecDirs == InitDirs /\ [][NextDirs]_vars

\* C24: a date directory that exists already is tolerated: once start() has
\* been called the session is open, with its log file, and the listener runs.
C24_ExistingDirTolerated ==
    stopped = "False" => (log_file # 0 /\ listener = "running")

\* the cells of a whole mouse row: eight, with NaN in the columns its type leaves out
MouseRowShaped(cells) ==
    /\ Len(cells) = 8
    /\ cells[1] \in MouseTypes
    /\ cells[1] = "move" => \A c \in 5..8 : cells[c] = NaN
    /\ cells[1] = "click" => \A c \in 7..8 : cells[c] = NaN
    /\ cells[1] = "scroll" => \A c \in 5..6 : cells[c] = NaN

\* the row a mouse callback starts to write holds its event: type, time and
\* position, then the button and the press flag of a click, or the two
\* directions of a scroll
MouseRowQueued(t) ==
    (dev = "mouse" /\ pc[t] = "in" /\ pc'[t] = "writing") =>
        LET e == ev[t]
            row == Head(ev'[t].todo)
        IN  /\ Len(ev'[t].todo) = 1
            /\ MouseRowShaped(row)
            /\ row[1] = e.type /\ row[2] = e.now /\ row[3] = e.x /\ row[4] = e.y
            /\ e.type = "click" => row[5] = e.button /\ row[6] = e.pressed
            /\ e.type = "scroll" => row[7] = e.dx /\ row[8] = e.dy

\* C25: every mouse row has the eight columns mouse_type, timestamp, x, y, button,
\* press, dx, dy; button and press hold the click's values in click rows only,
\* dx and dy the scroll's values in scroll rows only, every other of these four
\* columns holds NaN (all four in a move row); so for every whole row of a file.
C25_MouseColumns ==
    /\ [](dev = "mouse" =>
            /\ Header(dev) = <<"mouse_type", "timestamp", "x", "y",
                               "button", "press", "dx", "dy">>
            /\ \A path \in DOMAIN logs : \A i \in 1..Len(logs[path]) :
                   WholeRow(logs[path][i]) => MouseRowShaped(logs[path][i].cells))
    /\ [][\A t \in Listeners : MouseRowQueued(t)]_vars

\* the log files hold a whole click row and a whole scroll row
C25_Witness ==
    /\ dev = "mouse"
    /\ \A type \in {"click", "scroll"} :
           \E path \in DOMAIN logs : \E i \in 1..Len(logs[path]) :
               WholeRow(logs[path][i]) /\ logs[path][i].cells[1] = type

----------------------------------------------------------------------------
(* The key tracker's callbacks alone, between start() and the first rotation *)

NextHold ==
    \/ Start
    \/ Delivered < MaxKeyEvents /\ Deliver(Listener)
    \/ LockAcquire(Listener)
    \/ on_press(Listener)
    \/ on_release(Listener)
    \/ write_end(Listener)

SpecHold == InitKey /\ [][NextHold]_vars

\* thread t handles a press in this step
PressHandled(t) == pc[t] = "in" /\ ev[t].type = "press" /\ pc'[t] # "in"

\* C26: a press of k at time t sets the press record of k to t if and only if the
\* last action was a release or the last pressed key is not k, and leaves every
\* other record alone; after a press of the same k it leaves all records
\* unchanged; in both cases the last pressed key becomes k and the last action a press.
C26_PressRule ==
    [][\A t \in Listeners : PressHandled(t) =>
          LET k == ev[t].key
              others == DOMAIN first_pressed_time \ {k}
          IN  /\ (is_last_action_release \/ last_pressed_key # k) =>
                     /\ DOMAIN first_pressed_time' = DOMAIN first_pressed_time \cup {k}
                     /\ first_pressed_time'[k] = clock'
                     /\ \A j \in others : first_pressed_time'[j] = first_pressed_time[j]
              /\ (~is_last_action_release /\ last_pressed_key = k) =>
                     first_pressed_time' = first_pressed_time
              /\ last_pressed_key' = k
              /\ is_last_action_release' = FALSE]_vars

\* a press of a key that follows the press of another key has recorded its
\* time, and a later press of the same key has left that record
C26_Witness ==
    \E i \in 2..(Len(history) - 1) :
        /\ history[i-1].type = "press" /\ history[i].type = "press"
        /\ history[i+1].type = "press"
        /\ history[i-1].key # history[i].key
        /\ history[i+1].key = history[i].key
        /\ history[i].rec = history[i].now
        /\ history[i+1].rec = history[i].now
        /\ history[i+1].now > history[i].now

\* C27: every release of a key that has a press record writes exactly one row,
\* removes the record and makes the last action a release, whatever the key: also
\* a character outside both keyboard-side sets or a key without a character value.
C27_ReleaseTotal ==
    [][\A t \in Listeners :
          (pc[t] = "in" /\ ev[t].type = "release" /\ pc'[t] # "in"
              /\ ev[t].key \in DOMAIN first_pressed_time) =>
                 /\ pc'[t] = "writing"
                 /\ Len(ev'[t].todo) = 1
                 /\ ev[t].key \notin DOMAIN first_pressed_time'
                 /\ is_last_action_release']_vars

\* no key is pressed again before it is released
NoRepeatedPress ==
    \A p, q \in 1..Len(history) :
        (p < q /\ history[p].type = "press" /\ history[q].type = "press"
             /\ history[q].key = history[p].key)
            => \E m \in (p + 1)..(q - 1) :
                   history[m].type = "release" /\ history[m].key = history[p].key

\* C28: keys held together are timed apart: with no repeated presses, the release
\* of a key that comes after events of another key logs one row whose duration is
\* its release time minus the press time of that same key.
C28_HeldTogether ==
    NoRepeatedPress =>
        \A i, j \in 1..Len(history) :
            (NextOfKey(i, j)
                 /\ \E m \in (i + 1)..(j - 1) : history[m].key # history[i].key)
                => /\ Len(history[j].rows) = 1
                   /\ history[j].rows[1][4] = history[j].now - history[i].now

\* thread t handles, in this step, the release of a key that was pressed before
\* the session that is open now began
ReleaseAcrossRotation(t) ==
    /\ pc[t] = "in" /\ ev[t].type = "release" /\ pc'[t] # "in"
    /\ ev[t].key \in DOMAIN first_pressed_time
    /\ first_pressed_time[ev[t].key] < start_time

\* C29: a rotation never splits a press/release pair: no step of renew_session
\* changes the press records, the last pressed key or the last action, and a key
\* pressed before a rotation and released after it writes exactly one row, to the
\* log file of the new session, with the duration since its original press.
C29_RotationKeepsPairs ==
    /\ [][pc'[Scheduler] # pc[Scheduler] => UNCHANGED keyVars]_vars
    /\ [][\A t \in Listeners : ReleaseAcrossRotation(t) =>
              /\ pc'[t] = "writing"
              /\ Len(ev'[t].todo) = 1
              /\ Head(ev'[t].todo)[4] = clock' - first_pressed_time[ev[t].key]
              /\ ev'[t].h = log_file
              /\ handles[log_file].path = StrfTime(start_time)
              /\ Len(handles) >= 2]_vars

\* a callback has handled the release of k and is still writing its row
Releasing(k) ==
    \E t \in Listeners : pc[t] = "writing" /\ ev[t].type = "release" /\ ev[t].key = k

\* the most recent event handled for k is a press
LastHandledIsPress(k) ==
    /\ ~Releasing(k)
    /\ \E i \in 1..Len(history) :
           /\ history[i].key = k
           /\ history[i].type = "press"
           /\ \A m \in (i + 1)..Len(history) : history[m].key # k

\* C30: a key has a press record if and only if the most recent event handled
\* for it since construction was a press; after a release of the key has been
\* handled the key has no record, whether or not a row was written.
C30_RecordIffPressed ==
    dev = "key" =>
        \A k \in AllKeys : (k \in DOMAIN first_pressed_time) <=> LastHandledIsPress(k)

\* one key is held and has its record; another was pressed and released without
\* a row, and has none
C30_Witness ==
    \E i \in 1..Len(history) : \E k \in DOMAIN first_pressed_time :
        /\ history[i].type = "release"
        /\ history[i].had
        /\ history[i].rows = <<>>
        /\ history[i].key # k
        /\ history[i].key \notin DOMAIN first_pressed_time

----------------------------------------------------------------------------
(* The scheduler over several sessions, with sessions of several lengths *)

\* the session lengths run_renew_session is started with, in sleep increments
SessionLengths == {1, 2}

\* the tracker constructed at an earlier tick of the clock, so that the run
\* spans MaxSchedTicks ticks and crosses calendar dates
InitSched ==
    /\ dev \in {"key", "mouse"}
    /\ clock = MaxTime - MaxSchedTicks
    /\ locked = FALSE
    /\ stopped = None
    /\ listener = "new"
    /\ log_file = 0
    /\ handles = <<>>
    /\ logs = <<>>
    /\ meta = <<>>
    /\ start_time = -1
    /\ end_time = -1
    /\ first_pressed_time = <<>>
    /\ last_pressed_key = None
    /\ is_last_action_release = TRUE
    /\ pc = [t \in Threads |-> IF t = Scheduler THEN "check" ELSE "idle"]
    /\ ev = [t \in Listeners |-> NoEvent]
    /\ wake = clock
    /\ uploads = <<>>
    /\ history = <<>>
    /\ stops = 0
    /\ ckey = None
    /\ cpos = 0
    /\ cmatched = {}
    /\ craised = FALSE
    /\ LOCAL_SAVE_DIR = "local"
    /\ REMOTE_SAVE_DIR = "remote"
    /\ session_length \in SessionLengths
    /\ counter_seconds = session_length
    /\ increments = 0
    /\ dirs = <<>>

NextSched ==
    \/ Start
    \/ Rotation

SpecSched == InitSched /\ [][NextSched]_vars

\* the calls of renew_session the scheduler has made
RotationsInvoked ==
    (Len(handles) - 1)
    + Cardinality({t \in {Scheduler} :
                     pc[t] \in {"renew_wait", "renew_close", "renew_meta", "renew_open"}})

\* C31: while the tracker is not stopped the scheduler calls renew_session exactly
\* when the sleep increments since the last rotation reach the session length N,
\* and then restarts its count: after n increments it has made n div N calls,
\* so exactly k after k*N, never one earlier or later.
C31_RotationEveryN ==
    /\ stopped = None => increments = 0
    /\ stopped = "False" =>
           /\ RotationsInvoked = increments \div session_length
           /\ pc[Scheduler] \in {"check", "sleeping"} =>
                  counter_seconds = session_length - (increments % session_length)

\* sessions of two increments: after four increments the second rotation is done
C31_Witness ==
    /\ session_length = 2
    /\ increments = 4
    /\ Len(handles) = 3
    /\ pc[Scheduler] = "check"

----------------------------------------------------------------------------
(* The scheduler while stop() is called: the scheduler thread keeps running
   (its steps are weakly fair), the main thread may call stop() at any time *)

\* sessions of two increments, in a run of MaxStopTicks ticks
InitStopping ==
    /\ dev \in {"key", "mouse"}
    /\ clock = MaxTime - MaxStopTicks
    /\ locked = FALSE
    /\ stopped = None
    /\ listener = "new"
    /\ log_file = 0
    /\ handles = <<>>
    /\ logs = <<>>
    /\ meta = <<>>
    /\ start_time = -1
    /\ end_time = -1
    /\ first_pressed_time = <<>>
    /\ last_pressed_key = None
    /\ is_last_action_release = TRUE
    /\ pc = [t \in Threads |-> IF t = Scheduler THEN "check" ELSE "idle"]
    /\ ev = [t \in Listeners |-> NoEvent]
    /\ wake = clock
    /\ uploads = <<>>
    /\ history = <<>>
    /\ stops = 0
    /\ ckey = None
    /\ cpos = 0
    /\ cmatched = {}
    /\ craised = FALSE
    /\ LOCAL_SAVE_DIR = "local"
    /\ REMOTE_SAVE_DIR = "remote"
    /\ session_length = 2
    /\ counter_seconds = session_length
    /\ increments = 0
    /\ dirs = <<>>

NextStopping ==
    \/ Start
    \/ Rotation
    \/ Stop

SpecStopping == InitStopping /\ [][NextStopping]_vars /\ WF_vars(Rotation)

\* the scheduler thread has ended: the loop is left, or an error ended the thread
SchedulerEnded == pc[Scheduler] \in {"done", "crashed"}

\* the sleep the scheduler is in returns within the ticks of the run
SleepReturns == pc[Scheduler] = "sleeping" => wake <= MaxTime

\* C32: once stop() has set stopped to True the scheduler loop ends: the sleep it
\* is in returns, and at the top of the loop it never begins another sleep,
\* however much of the session remains.
C32_StopEndsLoop ==
    /\ (stopped = "True" /\ SleepReturns) ~> SchedulerEnded
    /\ [][(stopped = "True" /\ pc[Scheduler] = "check")
              => pc'[Scheduler] \in {"check", "done"}]_vars

\* the loop has ended after one increment of a session of two, with no rotation
C32_Witness ==
    /\ stopped = "True"
    /\ pc[Scheduler] = "done"
    /\ session_length = 2
    /\ increments = 1
    /\ counter_seconds = 1
    /\ Len(handles) = 1

\* C33: the upload that follows a rotation copies the date directory of the
\* session that rotation closed, also when the new session starts on a later
\* date: the i-th upload is of the date of the i-th session.
C33_UploadsClosedDate ==
    \A i \in 1..Len(uploads) : uploads[i] = DateOf(handles[i].path)

\* thread t handles, in this step, the release of a key without a press record
UnmatchedReleaseHandled(t) ==
    /\ pc[t] = "in" /\ ev[t].type = "release" /\ pc'[t] # "in"
    /\ ev[t].key \notin DOMAIN first_pressed_time

\* C34: the release of a key without a press record changes nothing: the press
\* records, the last pressed key, the last action (it does not become a release)
\* and every log file are after the handler what they were before it.
C34_UnmatchedReleaseFrame ==
    [][\A t \in Listeners : UnmatchedReleaseHandled(t) =>
          /\ pc'[t] = "idle"
          /\ ~locked'
          /\ UNCHANGED <<first_pressed_time, last_pressed_key,
                         is_last_action_release, logs, log_file, handles>>]_vars

\* a key is held, and the release of another key, which had no record, has
\* returned: the last action still is the press
C34_Witness ==
    /\ Len(history) >= 2
    /\ LET e == history[Len(history)]
       IN  /\ e.type = "release"
           /\ ~e.had
           /\ e.rows = <<>>
           /\ last_pressed_key # e.key
    /\ last_pressed_key \in DOMAIN first_pressed_time
    /\ ~is_last_action_release
    /\ \A path \in DOMAIN logs : Len(logs[path]) = 1

\* C35: every mouse row's timestamp is not earlier than the start time of the
\* session whose log file the row is written to, however the mouse handler
\* interleaves with renew_session.
C35_MouseRowInSession ==
    [][\A t \in Listeners :
          (dev = "mouse" /\ pc[t] = "in" /\ pc'[t] = "writing") =>
              /\ ev'[t].h = log_file
              /\ Head(ev'[t].todo)[2] >= start_time]_vars

----------------------------------------------------------------------------
(* The key tracker with keys that KEY_DICT classifies, so that every matched
   release logs a row, while the scheduler rotates *)

\* one alphanumeric key
RowKeys == {"a"}

\* the listener calls _on_press or _on_release with one of these keys
DeliverRow(t) ==
    /\ pc[t] = "idle"
    /\ listener = "running"
    /\ \E type \in {"press", "release"}, key \in RowKeys :
           ev' = [ev EXCEPT ![t] = KeyEvent(type, key)]
    /\ pc' = [pc EXCEPT ![t] = "wait"]
    /\ UNCHANGED <<dev, clock, locked, logs, keyVars, sessionVars, history,
                   classifierVars, envVars>>

NextRows ==
    \/ Start
    \/ Delivered < MaxRowEvents /\ DeliverRow(Listener)
    \/ LockAcquire(Listener)
    \/ on_press(Listener)
    \/ on_release(Listener)
    \/ write_end(Listener)
    \/ Rotation

SpecRows == InitKey /\ [][NextRows]_vars

\* the timestamps of the whole rows of the file at path, in file order
RowTimes(path) ==
    LET rows == SelectSeq(logs[path], WholeRow)
    IN  [i \in 1..Len(rows) |-> rows[i].cells[3]]

\* C36: every key row's timestamp lies between the start time and the end time
\* of the session whose log file it is written to, and the timestamps of the key
\* rows of one file do not decrease in file order, however the key handlers
\* interleave with renew_session.
C36_KeyRowInSession ==
    /\ [](dev = "key" =>
            \A path \in DOMAIN logs : \A i, j \in 1..Len(RowTimes(path)) :
                i <= j => RowTimes(path)[i] <= RowTimes(path)[j])
    /\ [][\A t \in Listeners :
              (dev = "key" /\ pc[t] = "in" /\ pc'[t] = "writing") =>
                  /\ ev'[t].h = log_file
                  /\ Head(ev'[t].todo)[3] >= start_time]_vars
    /\ [][(dev = "key" /\ pc[Scheduler] = "renew_close"
               /\ pc'[Scheduler] = "renew_meta") =>
              \A i \in 1..Len(RowTimes(handles[log_file].path)) :
                  /\ start_time <= RowTimes(handles[log_file].path)[i]
                  /\ RowTimes(handles[log_file].path)[i] <= end_time']_vars

\* a rotation has closed a session whose file holds a key row, and the new
\* session's file holds a key row as well
C36_Witness ==
    /\ dev = "key"
    /\ Len(handles) >= 2
    /\ handles[1].closed /\ end_time >= 0
    /\ \A h \in 1..2 : Len(RowTimes(handles[h].path)) >= 1

----------------------------------------------------------------------------
(* The lock: callbacks on several threads, with events that make their bodies
   raise, and a renew_session whose body can raise; every thread keeps running
   (the steps of the callbacks and of the scheduler are weakly fair) *)

NextLock ==
    \/ Start
    \/ \E t \in Listeners : Delivered < MaxEvents /\ DeliverOdd(t)
    \/ Handlers(Listeners)
    \/ Rotation
    \/ RenewOpenFails

SpecLock ==
    Init /\ [][NextLock]_vars /\ WF_vars(Handlers(Listeners)) /\ WF_vars(Rotation)

\* C37: every handler and renew_session releases the lock on every way out, also
\* when its body raises, and no thread takes the lock while it holds it: the lock
\* is held exactly while one thread is inside a critical section, and every
\* thread that waits for the lock gets it.
C37_LockReleased ==
    /\ [](locked <=> Cardinality(Inside) = 1)
    /\ \A t \in Listeners : (pc[t] = "wait") ~> (pc[t] = "in")
    /\ (pc[Scheduler] = "renew_wait") ~> (pc[Scheduler] = "renew_close")

\* renew_session has raised while a callback waited for the lock; the callback
\* now holds the lock, and its own body is about to raise
C37_Witness ==
    /\ pc[Scheduler] = "crashed"
    /\ \E t \in Listeners :
           /\ pc[t] = "in"
           /\ \/ ev[t].type \in MouseTypes /\ WriteRaises(log_file)
              \/ ev[t].type \in {"press", "release"} /\ ClassifyRaises(ev[t].key)
    /\ locked

----------------------------------------------------------------------------
(* renew_session called directly, as a cron job would, at any moment *)

\* a caller invokes tracker.renew_session() without sleeping first
RenewCall ==
    /\ pc[Scheduler] = "check"
    /\ stopped = "False"
    /\ Len(handles) <= MaxRenewCalls
    /\ pc' = [pc EXCEPT ![Scheduler] = "renew_wait"]
    /\ UNCHANGED <<clock, locked, stopped, listener, log_file, handles, logs, meta,
                   start_time, end_time, counter_seconds, wake, uploads, schedFrame>>

NextRenew ==
    \/ Start
    \/ Delivered < MaxEvents /\ Deliver(Listener)
    \/ Handlers({Listener})
    \/ RenewCall
    \/ RenewAcquire
    \/ RenewClose
    \/ RenewMeta
    \/ RenewOpen
    \/ RenewHeader
    \/ RenewUpload

SpecRenew == Init /\ [][NextRenew]_vars

\* C39: two sessions of one tracker never have the same log file path, so that
\* starting a session never truncates the log file of an earlier one, also when
\* renew_session is called twice within one second.
C39_DistinctPaths ==
    \A g, h \in 1..Len(handles) : g # h => handles[g].path # handles[h].path

----------------------------------------------------------------------------
(* The draft of the key tracker in src/Trackers.py: one class KeyTrackerPrivate
   with its own _on_press, _on_release, stop and renew_session, and the loop
   run_cron.  It uses the variables of the packaged tracker; its press times
   (_last_pressed_time) are kept in first_pressed_time, its one meta file in meta. *)

DraftHeader == <<"key_type", "key_name", "press_time", "press_duration">>
DraftMetaHeader == <<"session_start", "session_end", "session_duration">>

InitDraft == Init /\ dev = "key"

\* what no step of the draft changes
draftFrame == <<dev, uploads, stops, classifierVars, configVars, increments>>

\* the draft's _start_session: the start time, the date directory, the log file
\* with its header, and the key state is reset
DraftStartSession ==
    /\ \E now \in clock..MaxTime : TimeIs(now)
    /\ start_time' = clock'
    /\ dirs' = MakeDirs(DateOf(StrfTime(clock')))
    /\ handles' = Append(handles, [path |-> StrfTime(clock'), closed |-> FALSE,
                                   closes |-> 0])
    /\ log_file' = Len(handles) + 1
    /\ is_last_action_release' = TRUE
    /\ first_pressed_time' = <<>>

\* the draft's start(): stopped = False, the first session, the meta file with
\* its header, the listener
DraftStart ==
    /\ listener = "new"
    /\ stopped = None
    /\ stopped' = "False"
    /\ DraftStartSession
    /\ logs' = (StrfTime(clock') :> <<Line("header", DraftHeader)>>)
    /\ meta' = (StrfTime(clock') :> <<DraftMetaHeader>>)
    /\ listener' = "running"
    /\ UNCHANGED <<locked, end_time, last_pressed_key, pc, ev, counter_seconds,
                   wake, history, draftFrame>>

\* the listener calls _on_press or _on_release, which reaches self._lock.acquire()
DraftDeliver(t) ==
    /\ pc[t] = "idle"
    /\ listener = "running"
    /\ \E type \in {"press", "release"}, key \in RowKeys :
           ev' = [ev EXCEPT ![t] = KeyEvent(type, key)]
    /\ pc' = [pc EXCEPT ![t] = "wait"]
    /\ UNCHANGED <<clock, locked, stopped, listener, log_file, handles, logs, meta,
                   start_time, end_time, keyVars, counter_seconds, wake, history,
                   dirs, draftFrame>>

\* self._lock.acquire() in _on_press and _on_release
DraftAcquire(t) ==
    /\ pc[t] = "wait"
    /\ ~locked
    /\ locked' = TRUE
    /\ pc' = [pc EXCEPT ![t] = "in"]
    /\ UNCHANGED <<clock, stopped, listener, log_file, handles, logs, meta,
                   start_time, end_time, keyVars, ev, counter_seconds, wake, history,
                   dirs, draftFrame>>

\* the draft's _on_press: if self.stopped: return False comes before the try, so
\* the lock is not released and the listener, told False, stops; otherwise the
\* press is recorded and finally releases the lock
Draft_on_press(t) ==
    /\ pc[t] = "in"
    /\ ev[t].type = "press"
    /\ LET key == ev[t].key
       IN  IF stopped = "True"
           THEN /\ locked' = locked
                /\ listener' = "stopped"
                /\ clock' = clock
                /\ UNCHANGED keyVars
                /\ history' = Append(history, [type |-> "press", key |-> key,
                                               now |-> clock, rows |-> <<>>])
           ELSE /\ locked' = FALSE
                /\ listener' = listener
                /\ IF RecordsPress(key)
                   THEN /\ \E now \in clock..MaxTime : TimeIs(now)
                        /\ first_pressed_time' =
                               [k \in DOMAIN first_pressed_time \cup {key} |->
                                   IF k = key THEN clock' ELSE first_pressed_time[k]]
                   ELSE /\ clock' = clock
                        /\ first_pressed_time' = first_pressed_time
                /\ last_pressed_key' = key
                /\ is_last_action_release' =
                       IF ClassifyRaises(key) THEN is_last_action_release ELSE FALSE
                /\ history' = Append(history, [type |-> "press", key |-> key,
                                               now |-> clock', rows |-> <<>>])
    /\ pc' = [pc EXCEPT ![t] = "idle"]
    /\ ev' = [ev EXCEPT ![t] = NoEvent]
    /\ UNCHANGED <<stopped, log_file, handles, logs, meta, start_time, end_time,
                   counter_seconds, wake, dirs, draftFrame>>

\* the rows the draft's _on_release writes: the character itself, or str(key)
DraftReleaseRows(key, now, span) ==
    LET types == SelectSeq(KeyTypes, LAMBDA kt : IsKeyType(kt, key))
    IN  [i \in 1..Len(types) |-> <<types[i], key, now, span>>]

\* the draft's _on_release: every error is caught, finally releases the lock
Draft_on_release(t) ==
    /\ pc[t] = "in"
    /\ ev[t].type = "release"
    /\ \E now \in clock..MaxTime : TimeIs(now)
    /\ LET key == ev[t].key
           found == key \in DOMAIN first_pressed_time
           rows == IF found /\ ~ClassifyRaises(key)
                   THEN DraftReleaseRows(key, clock', clock' - first_pressed_time[key])
                   ELSE <<>>
           written == found /\ ~ClassifyRaises(key)
                          /\ (rows = <<>> \/ ~WriteRaises(log_file))
       IN  /\ logs' = IF written
                      THEN [logs EXCEPT ![handles[log_file].path] =
                               @ \o [i \in 1..Len(rows) |-> Line(t, rows[i])]]
                      ELSE logs
           /\ is_last_action_release' = IF written THEN TRUE ELSE is_last_action_release
           /\ history' = Append(history, [type |-> "release", key |-> key,
                                          now |-> clock',
                                          rows |-> IF written THEN rows ELSE <<>>])
    /\ locked' = FALSE
    /\ pc' = [pc EXCEPT ![t] = "idle"]
    /\ ev' = [ev EXCEPT ![t] = NoEvent]
    /\ UNCHANGED <<stopped, listener, log_file, handles, meta, start_time, end_time,
                   first_pressed_time, last_pressed_key, counter_seconds, wake,
                   dirs, draftFrame>>

\* the draft's _end_session: the log file is closed and the summary row written
\* to the meta file
DraftEndSession ==
    /\ handles' = CloseHandle(log_file)
    /\ \E now \in clock..MaxTime : TimeIs(now)
    /\ end_time' = clock'
    /\ meta' = [d \in DOMAIN meta |->
                   Append(meta[d], <<StrfTime(start_time), StrfTime(clock'),
                                     clock' - start_time>>)]

\* the draft's stop(), first part: _end_session(); self._meta_file.close()
DraftStopClose ==
    /\ pc[Main] = "idle"
    /\ stopped = "False"
    /\ DraftEndSession
    /\ pc' = [pc EXCEPT ![Main] = "stop_listener"]
    /\ UNCHANGED <<locked, stopped, listener, log_file, logs, start_time, keyVars,
                   ev, counter_seconds, wake, history, dirs, draftFrame>>

\* the draft's stop(), second part: self.listener.stop(); self.stopped = True.
\* A callback the listener has already called goes on.
DraftStopFlag ==
    /\ pc[Main] = "stop_listener"
    /\ listener' = "stopped"
    /\ stopped' = "True"
    /\ pc' = [pc EXCEPT ![Main] = "done"]
    /\ UNCHANGED <<clock, locked, log_file, handles, logs, meta, start_time,
                   end_time, keyVars, ev, counter_seconds, wake, history, dirs,
                   draftFrame>>

\* run_cron: while counter_seconds: time.sleep(1) begins
DraftCronSleep ==
    /\ pc[Scheduler] = "check"
    /\ stopped # None
    /\ counter_seconds # 0
    /\ wake' = clock + TicksPerSecond
    /\ pc' = [pc EXCEPT ![Scheduler] = "sleeping"]
    /\ UNCHANGED <<clock, locked, stopped, listener, log_file, handles, logs, meta,
                   start_time, end_time, keyVars, ev, counter_seconds, history,
                   dirs, draftFrame>>

\* run_cron: the sleep returns; counter_seconds -= 1; if tracker.stopped: break;
\* if not counter_seconds: renew_session()
DraftCronWake ==
    /\ pc[Scheduler] = "sleeping"
    /\ wake <= MaxTime
    /\ clock' = IF clock >= wake THEN clock ELSE wake
    /\ counter_seconds' = counter_seconds - 1
    /\ pc' = [pc EXCEPT ![Scheduler] =
                 IF stopped = "True" THEN "done"
                 ELSE IF counter_seconds - 1 = 0 THEN "renew_wait" ELSE "check"]
    /\ UNCHANGED <<locked, stopped, listener, log_file, handles, logs, meta,
                   start_time, end_time, keyVars, ev, wake, history, dirs, draftFrame>>

\* the draft's renew_session: self._lock.acquire()
DraftRenewAcquire ==
    /\ pc[Scheduler] = "renew_wait"
    /\ ~locked
    /\ locked' = TRUE
    /\ pc' = [pc EXCEPT ![Scheduler] = "renew_close"]
    /\ UNCHANGED <<clock, stopped, listener, log_file, handles, logs, meta,
                   start_time, end_time, keyVars, ev, counter_seconds, wake, history,
                   dirs, draftFrame>>

\* the draft's renew_session: _end_session()
DraftRenewEnd ==
    /\ pc[Scheduler] = "renew_close"
    /\ IF pc[Main] = "idle"
       THEN /\ DraftEndSession
            /\ locked' = locked
            /\ pc' = [pc EXCEPT ![Scheduler] = "renew_open"]
       ELSE \* stop() has closed the meta file: the write raises ValueError,
            \* finally releases the lock and the error ends the thread
            /\ handles' = CloseHandle(log_file)
            /\ \E now \in clock..MaxTime : TimeIs(now)
            /\ end_time' = clock'
            /\ meta' = meta
            /\ locked' = FALSE
            /\ pc' = [pc EXCEPT ![Scheduler] = "crashed"]
    /\ UNCHANGED <<stopped, listener, log_file, logs, start_time, keyVars, ev,
                   counter_seconds, wake, history, dirs, draftFrame>>

\* the draft's renew_session: _start_session(); finally: self._lock.release();
\* back in run_cron the counter is reset
DraftRenewStart ==
    /\ pc[Scheduler] = "renew_open"
    /\ DraftStartSession
    /\ logs' = (StrfTime(clock') :> <<Line("header", DraftHeader)>>) @@ logs
    /\ locked' = FALSE
    /\ counter_seconds' = session_length
    /\ pc' = [pc EXCEPT ![Scheduler] = "check"]
    /\ UNCHANGED <<stopped, listener, meta, end_time, last_pressed_key, ev, wake,
                   history, draftFrame>>

NextDraft ==
    \/ DraftStart
    \/ Delivered < MaxCalls /\ DraftDeliver(Listener)
    \/ DraftAcquire(Listener)
    \/ Draft_on_press(Listener)
    \/ Draft_on_release(Listener)
    \/ DraftStopClose
    \/ DraftStopFlag
    \/ DraftCronSleep
    \/ DraftCronWake
    \/ DraftRenewAcquire
    \/ DraftRenewEnd
    \/ DraftRenewStart

SpecDraft == InitDraft /\ [][NextDraft]_vars

\* C38: in the draft, a key press handled after the tracker has been stopped
\* leaves the lock free when _on_press returns, so that later handlers and
\* renew_session can still acquire it.
C38_DraftPressFreesLock ==
    [][\A t \in Listeners :
          (pc[t] = "in" /\ ev[t].type = "press" /\ stopped = "True" /\ pc'[t] = "idle")
              => ~locked']_vars

====
